---- MODULE Spec2Model ----
(***************************************************************************)
(* Group voice call of the classroom: call lifecycle (Classroom.jsx,       *)
(* GroupCallStage), the call:<chat> broadcast channel with its three       *)
(* events (raise_hand, mic_control, end_call), the per-client call state   *)
(* of ActiveCallRoom and the durable conversations.is_call_active flag.    *)
(***************************************************************************)
EXTENDS Integers, FiniteSets, Sequences, TLC

\* ---------------------------------------------------------------- bounds
\* buffer sources one hook may create (playAudio calls that start a source)
MaxPlays == 2
\* loadAudioFile calls of one hook
MaxLoads == 2
\* last value of AudioContext.currentTime, in ticks
MaxTime == 2
\* raise_hand / mic_control broadcasts sent over the whole run
MaxSends == 2
\* call sessions one user may join
MaxSessions == 1
\* end-call handler invocations of one session that may await their send
MaxEndClicks == 2
\* largest value of the retries argument of fetchWithRetry
MaxRetries == 4

\* ------------------------------------------------------------- the accounts
Users == {"t1", "a1", "s1"}

\* profiles.role of each account (an array in the database)
accountRoles ==
  [u \in Users |-> CASE u = "t1" -> {"teacher"}
                     [] u = "a1" -> {"admin"}
                     [] OTHER    -> {"academy"}]

NoUser == "none"

VARIABLES
  phase,              \* per user: Idle | Connecting | Error | Room | Active | Ended
  isTeacherOrAdmin,   \* GroupCallStage state, result of the role lookup
  metaRole,           \* role in the participant metadata of the join token
  raisedHands,        \* ActiveCallRoom state: set of user ids
  micPermissionsMap,  \* ActiveCallRoom state: object userId -> boolean
  canSpeak,           \* ActiveCallRoom state
  micEnabled,         \* localParticipant.isMicrophoneEnabled
  micConfirmation,    \* ActiveCallRoom state: studentId of the open modal
  endPending,         \* handleEndCallAction invocations awaiting their send
  net,                \* broadcasts in flight, one record per recipient; a lost
                      \* broadcast is one that is never delivered
  sent,               \* number of raise_hand / mic_control broadcasts sent
  is_call_active,     \* conversations.is_call_active
  sessions,           \* call sessions started, per user
  lastMicControl,     \* history: last mic_control applied, per peer and target
  endClicks,          \* history: end-call clicks of the current session
  endCallSent,        \* history: end_call broadcasts of the current session
  falseWrites,        \* history: is_call_active=false requests of the session
  endedBy             \* history: what ended the session (none while it runs)

\* useSoundboardAudio: state and refs of one mounted hook
VARIABLES
  audioContext,       \* audioContextRef.current is set
  isReady,            \* hook state
  error,              \* hook state: none | init | load
  micPrompt,          \* getUserMedia calls awaiting the user's answer
  wires,              \* connections made by initAudioContext, counted per edge
  audioBuffer,        \* audioBufferRef.current as its duration, 0 for null
  isPlaying,          \* hook state
  currentTime,        \* hook state
  pausedAt,           \* pausedAtRef.current
  startTime,          \* startTimeRef.current
  bgmSource,          \* bgmSourceRef.current: a source id, 0 for null
  sources,            \* per buffer source: idle | playing | ended | done and,
                      \* while playing, the context time its buffer runs out
  frames,             \* progress loops that have an animation frame scheduled
  animationFrame,     \* animationFrameRef.current: the loop whose scheduled
                      \* frame the ref holds; 0 for null and for the id of a
                      \* frame that has run or was cancelled
  loads,              \* loadAudioFile calls that are awaiting
  ctxTime,            \* AudioContext.currentTime
  voiceVolume,        \* hook state, in halves (1 is 0.5)
  bgmVolume,          \* hook state, in halves
  gains,              \* value the mic and bgm gain nodes were last given
  plays,              \* buffer sources created so far
  loadCalls,          \* loadAudioFile calls so far
  micRequests,        \* history: getUserMedia calls
  graphsBuilt,        \* history: AudioContexts constructed
  skipped,            \* history: situations in which a call returned at once
  hookMounted         \* the component that uses the hook is mounted

callVars == <<phase, isTeacherOrAdmin, metaRole, raisedHands, micPermissionsMap,
              canSpeak, micEnabled, micConfirmation, endPending, net, sent,
              is_call_active, sessions, lastMicControl, endClicks,
              endCallSent, falseWrites, endedBy>>

audioVars == <<audioContext, isReady, error, micPrompt, wires, audioBuffer,
               isPlaying, currentTime, pausedAt, startTime, bgmSource, sources,
               frames, animationFrame, loads, ctxTime, voiceVolume, bgmVolume,
               gains, plays, loadCalls, micRequests, graphsBuilt, skipped,
               hookMounted>>

\* one call of classroomService.fetchWithRetry(fn, retries, delay):
\* [retries, delay, i, stage, calls, sleeps, waited, last, result] with stage
\* one of idle | awaiting | sleeping | returned | thrown, calls the
\* invocations of fn so far, sleeps and waited the number and total length of
\* the waits, last the value or error the latest invocation of fn settled
\* with, and result the value returned or the error thrown to the caller
\* (0 for undefined)
VARIABLES retry

\* Classroom / GroupMessageArea (the chat view, mounted while the user is not
\* in the call view) and the call-presence channel
VARIABLES
  selectedChat,       \* Classroom state: none | id (object built from the URL,
                      \* no is_call_active) | active | inactive (object of the
                      \* lobby with its is_call_active)
  chatFetch,          \* GroupMessageArea.fetchUser: pending | user (currentUser
                      \* is set) | done (isTeacherOrAdmin is set too)
  chatIsTA,           \* GroupMessageArea state isTeacherOrAdmin
  isCallActive,       \* GroupMessageArea state
  callParticipants,   \* GroupMessageArea state: list of presence records
  convSub,            \* the conversation:<chat> channel of the chat view exists
  watchSub,           \* the watch-only presence channel of the chat view exists
  convQueue,          \* UPDATE events on their way to the chat view
  presence,           \* presence channel of ActiveCallRoom: none | joining |
                      \* subscribed
  presenceState,      \* presence state of call-presence:<chat>: per key the
                      \* list of published records
  toasted             \* history: users shown the only-teacher error toast

chatVars == <<selectedChat, chatFetch, chatIsTA, isCallActive, callParticipants,
              convSub, watchSub, convQueue, presence, presenceState, toasted>>

\* what an action of the call leaves alone
outsideCall == <<audioVars, retry>>

\* what an action of the soundboard hook leaves alone
outsideAudio == <<callVars, retry, chatVars>>

vars == <<callVars, audioVars, retry, chatVars>>

\* the empty JS object {}
EmptyMap == [x \in {} |-> FALSE]

\* ------------------------------------------------------ pure helper code

\* classroomService.isTeacherOrAdmin: a failed profile lookup yields false
IsTeacherOrAdminOf(roles, lookupOk) ==
  IF lookupOk THEN ("teacher" \in roles) \/ ("admin" \in roles) ELSE FALSE

\* livekit-token: metadata role written into the token
TokenRole(isTeacher) == IF isTeacher THEN "teacher" ELSE "student"

\* !!micPermissionsMap[id]
HasPermission(map, id) == id \in DOMAIN map /\ map[id]

\* {...prev, [key]: value}
Spread(prev, key, value) ==
  [x \in (DOMAIN prev) \cup {key} |-> IF x = key THEN value ELSE prev[x]]

\* variant: an explicit false entry of the map overrides the role
IsOnStageFalseEntryWins(role, map, id) ==
  \/ role = "teacher" /\ ~(id \in DOMAIN map /\ ~map[id])
  \/ HasPermission(map, id)

\* filter predicate of stageParticipants
IsOnStage(role, map, id) == role = "teacher" \/ HasPermission(map, id)

StageParticipants(roster, roles, map) ==
  {p \in roster : IsOnStage(roles[p], map, p)}

\* variant: the audience is filtered by the permission map alone
AudienceParticipantsWithoutGrant(roster, roles, map) ==
  {p \in roster : ~HasPermission(map, p)}

\* audienceParticipants: participants.filter(p => !stageParticipants.includes(p))
AudienceParticipants(roster, roles, map) ==
  {p \in roster : p \notin StageParticipants(roster, roles, map)}

\* The state of one ActiveCallRoom that the handlers work on is the record
\* [hands, map, canSpeak, mic]: raisedHands, micPermissionsMap, canSpeak and
\* localParticipant.isMicrophoneEnabled.

\* variant: raise_hand flips the membership of userId
OnRaiseHandToggles(st, userId, raised) ==
  [st EXCEPT !.hands = IF userId \in @ THEN @ \ {userId} ELSE @ \cup {userId}]

\* raise_hand handler
OnRaiseHand(st, userId, raised) ==
  [st EXCEPT !.hands = IF raised THEN @ \cup {userId} ELSE @ \ {userId}]

\* variant: a revoke leaves the map as it is
OnMicControlGrantOnly(st, self, targetUserId, unmute) ==
  LET st1 == IF unmute THEN [st EXCEPT !.map = Spread(@, targetUserId, unmute)]
                       ELSE st
  IN IF targetUserId = self
       THEN [st1 EXCEPT !.canSpeak = unmute, !.mic = unmute]
       ELSE st1

\* variant: every receiver switches its own microphone
OnMicControlEveryReceiver(st, self, targetUserId, unmute) ==
  [st EXCEPT !.map = Spread(@, targetUserId, unmute),
             !.canSpeak = unmute, !.mic = unmute]

\* variant: a grant lowers the hand of the target
OnMicControlLowersHand(st, self, targetUserId, unmute) ==
  LET st1 == [st EXCEPT !.map = Spread(@, targetUserId, unmute),
                        !.hands = IF unmute THEN @ \ {targetUserId} ELSE @]
  IN IF targetUserId = self
       THEN [st1 EXCEPT !.canSpeak = unmute, !.mic = unmute]
       ELSE st1

\* mic_control handler
OnMicControl(st, self, targetUserId, unmute) ==
  LET st1 == [st EXCEPT !.map = Spread(@, targetUserId, unmute)]
  IN IF targetUserId = self
       THEN [st1 EXCEPT !.canSpeak = unmute, !.mic = unmute]
       ELSE st1

\* variant: only participants that are not teacher/admin are disconnected
OnEndCallStudentsOnly(isTA) == ~isTA

\* end_call handler: does it call room.disconnect()
OnEndCall(isTA) == TRUE

\* variant: the sender waits for the broadcast to come back
ExecuteMicControlLocalNone(st, studentId, unmute) == st

\* executeMicControl, local update made before the send
ExecuteMicControlLocal(st, studentId, unmute) ==
  [st EXCEPT !.map = Spread(@, studentId, unmute)]

\* toggleRaiseHand, local update made before the send
ToggleRaiseHandLocal(st, self) ==
  [st EXCEPT !.hands = IF self \notin @ THEN @ \cup {self} ELSE @ \ {self}]

\* toggleMic
ToggleMicLocal(st) == [st EXCEPT !.mic = ~@]

\* handleEndCallAction: values passed to updateCallStatus
EndCallWrites(isTA) == IF isTA THEN {FALSE} ELSE {}

\* handleEndCallAction: does the handler broadcast end_call
EndCallBroadcasts(isTA) == isTA

\* what the promise of channel.send resolves to
SendResults == {"ok", "timed out", "error"}

\* variant: the handler disconnects only after a successful send
EndCallProceedsOnOkOnly(result) == result = "ok"

\* handleEndCallAction: is room.disconnect() reached once the awaited send
\* has resolved to result (the result is not read)
EndCallProceeds(result) == TRUE

\* variant: a teacher/admin leaving marks the call inactive
CleanupWritesTeacherInactive(isTA) == IF isTA THEN {FALSE} ELSE {}

\* cleanup of the presence effect: values passed to updateCallStatus
CleanupWrites(isTA) == {}

\* presence effect on mount: values passed to updateCallStatus
MountWrites(isTA) == IF isTA THEN {TRUE} ELSE {}

\* classroomService.updateCallStatus called with each value of vals: the
\* values the row can hold afterwards (the update succeeds, or it fails and
\* the error is only logged)
UpdateCallStatus(cur, vals) ==
  IF vals = {} THEN {cur} ELSE vals \cup {cur}

\* --------------------------------------------------- chat view helper code

\* order in which Object.keys lists the keys of a presence state
UserOrder == <<"t1", "a1", "s1">>

\* nicknames a presence record can carry; "" stands for a missing nickname
Nicknames == {"", "nick"}

\* sync callback of GroupMessageArea: if (presence.nickname)
KeepsRecord(nickname) == nickname # ""

\* the records of one key that the sync callback pushes
FlattenKey(records) == SelectSeq(records, LAMBDA r : KeepsRecord(r.nickname))

RECURSIVE FlattenFrom(_, _)
FlattenFrom(state, i) ==
  IF i > Len(UserOrder) THEN <<>>
  ELSE FlattenKey(state[UserOrder[i]]) \o FlattenFrom(state, i + 1)

\* sync callback of GroupMessageArea: the list given to setCallParticipants
FlattenPresence(state) == FlattenFrom(state, 1)

\* variant: every subscriber announces itself
TracksWithoutUserInfo(status, hasUserInfo) == status = "SUBSCRIBED"

\* subscribeToCallPresence: if (status === 'SUBSCRIBED' && userInfo) track
Tracks(status, hasUserInfo) == status = "SUBSCRIBED" /\ hasUserInfo

\* variant: anyone can start a call
CallButtonEntersAlways(active, participants, isTA) == TRUE

\* handleCallButtonClick: is onStartCall() called
CallButtonEnters(active, participants, isTA) ==
  IF active \/ participants > 0 THEN TRUE ELSE isTA

\* useState(chat?.is_call_active || false)
InitialIsCallActive(chat) == chat = "active"

\* variant: removing the presence channel leaves the record published
RecordsAfterUnsubscribeKept(records) == records

\* supabase.removeChannel of a presence channel: the records of that
\* connection are retracted
RecordsAfterUnsubscribe(records) == <<>>

\* ------------------------------------------------------------- derived
Mounted(u) == phase[u] \in {"Room", "Active"}

\* useParticipants(): the local participant and the connected remote ones
Roster(v) == {p \in Users : phase[p] = "Active"} \cup {v}

Stage(v) == StageParticipants(Roster(v), metaRole, micPermissionsMap[v])
Audience(v) == AudienceParticipants(Roster(v), metaRole, micPermissionsMap[v])

PeerState(u) ==
  [hands |-> raisedHands[u], map |-> micPermissionsMap[u],
   canSpeak |-> canSpeak[u], mic |-> micEnabled[u]]

\* useState initialisers of ActiveCallRoom
FreshPeer(isTA) ==
  [hands |-> {}, map |-> EmptyMap, canSpeak |-> isTA, mic |-> FALSE]

\* component state of u after the step
SetPeer(u, st) ==
  /\ raisedHands' = [raisedHands EXCEPT ![u] = st.hands]
  /\ micPermissionsMap' = [micPermissionsMap EXCEPT ![u] = st.map]
  /\ canSpeak' = [canSpeak EXCEPT ![u] = st.canSpeak]
  /\ micEnabled' = [micEnabled EXCEPT ![u] = st.mic]

\* ------------------------------------------------ useSoundboardAudio helpers

\* useState(0.5) of voiceVolume and bgmVolume, in halves
InitialVolume == 1

\* upper end of the volume sliders, 1.5, in halves
MaxGain == 3

\* values a caller passes to setVoiceVolume / setBgmVolume, in halves
VolumeInputs == {-1, 0, 1, 3, 4}

\* durations of the files a caller loads, in ticks; 0 is a file that fails
\* to decode
FileDurations == {0, 1, 2}

SourceIds == 1..MaxPlays

\* the edges initAudioContext connects
Edges == {"micToGain", "gainToDest", "gainToLoop", "loopToLocal",
          "bgmToDest", "bgmToLocal"}

\* variant: a call returns at once only when the graph is ready
InitSkipsWhenReady(ctxSet, ready) == ready

\* initAudioContext: if (audioContextRef.current) return
InitSkips(ctxSet, ready) == ctxSet

\* volume effects: the value handed to gain.setTargetAtTime
GainTarget(v) == v

\* AudioBufferSourceNode.stop() on source k
StopSource(srcs, k) ==
  IF srcs[k].state = "playing"
    THEN [srcs EXCEPT ![k] = [state |-> "ended", end |-> 0]]
    ELSE srcs

\* The playback state the handlers work on is the record
\* [sources, bgmSource, frames, animationFrame, isPlaying, pausedAt,
\*  currentTime, startTime].

\* stopAudio
StopAudio(pb) ==
  [pb EXCEPT !.sources = IF pb.bgmSource # 0 THEN StopSource(@, pb.bgmSource) ELSE @,
             !.bgmSource = 0,
             !.frames = @ \ {pb.animationFrame},
             !.animationFrame = 0,
             !.isPlaying = FALSE,
             !.pausedAt = 0,
             !.currentTime = 0]

\* variant: play starts without a loaded buffer
PlayReturnsEarlyNoContextOnly(ctxSet, buffer) == ~ctxSet

\* playAudio: if (!audioContextRef.current || !audioBufferRef.current) return
PlayReturnsEarly(ctxSet, buffer) == ~ctxSet \/ buffer = 0

\* playAudio creating source k at context time now
PlayAudio(pb, ctxSet, buffer, now, k) ==
  IF PlayReturnsEarly(ctxSet, buffer) THEN pb
  ELSE [pb EXCEPT
          !.sources = [(IF pb.bgmSource # 0 THEN StopSource(@, pb.bgmSource) ELSE @)
                         EXCEPT ![k] = [state |-> "playing",
                                        end |-> now - pb.pausedAt + buffer]],
          !.startTime = now - pb.pausedAt,
          !.bgmSource = k,
          !.isPlaying = TRUE,
          !.frames = @ \cup {k},
          !.animationFrame = k]

\* updateProgress of the loop started with source k, run as an animation frame
UpdateProgress(pb, k, buffer, now) ==
  LET current == now - pb.startTime
      ran == [pb EXCEPT !.frames = @ \ {k},
                        !.animationFrame = IF @ = k THEN 0 ELSE @]
  IN IF current >= buffer
       THEN [StopAudio(ran) EXCEPT !.currentTime = 0, !.pausedAt = 0]
       ELSE [pb EXCEPT !.currentTime = current, !.animationFrame = k]

\* source.onended of source k
OnEnded(pb, k) ==
  [pb EXCEPT !.sources[k].state = "done",
             !.isPlaying = FALSE,
             !.frames = @ \ {pb.animationFrame},
             !.animationFrame = 0]

\* loadAudioFile: if (isPlaying) stopAudio(), isPlaying being the value the
\* callback closed over when it was called
LoadStops(wasPlaying) == wasPlaying

Playback ==
  [sources |-> sources, bgmSource |-> bgmSource, frames |-> frames,
   animationFrame |-> animationFrame, isPlaying |-> isPlaying,
   pausedAt |-> pausedAt, currentTime |-> currentTime, startTime |-> startTime]

SetPlayback(pb) ==
  /\ sources' = pb.sources
  /\ bgmSource' = pb.bgmSource
  /\ frames' = pb.frames
  /\ animationFrame' = pb.animationFrame
  /\ isPlaying' = pb.isPlaying
  /\ pausedAt' = pb.pausedAt
  /\ currentTime' = pb.currentTime
  /\ startTime' = pb.startTime

playbackVars == <<sources, bgmSource, frames, animationFrame, isPlaying,
                  pausedAt, currentTime, startTime>>

\* fetchWithRetry has not been called
RetryIdle ==
  retry = [retries |-> 0, delay |-> 0, i |-> 0, stage |-> "idle", calls |-> 0,
           sleeps |-> 0, waited |-> 0, last |-> 0, result |-> 0]

\* the hook right after its first render
AudioInit ==
  /\ audioContext = FALSE
  /\ isReady = FALSE
  /\ error = "none"
  /\ micPrompt = 0
  /\ wires = [e \in Edges |-> 0]
  /\ audioBuffer = 0
  /\ isPlaying = FALSE
  /\ currentTime = 0
  /\ pausedAt = 0
  /\ startTime = 0
  /\ bgmSource = 0
  /\ sources = [k \in SourceIds |-> [state |-> "idle", end |-> 0]]
  /\ frames = {}
  /\ animationFrame = 0
  /\ loads = {}
  /\ ctxTime = 0
  /\ voiceVolume = InitialVolume
  /\ bgmVolume = InitialVolume
  /\ gains = [mic |-> 0, bgm |-> 0]
  /\ plays = 0
  /\ loadCalls = 0
  /\ micRequests = 0
  /\ graphsBuilt = 0
  /\ skipped = {}
  /\ hookMounted = TRUE

\* the chat view of u is rendered
ChatMounted(u) == phase[u] \in {"Idle", "Ended"}

\* conversations UPDATE events of a write of one of vals that left the row
\* at new: one event per subscribed chat view
ConvEvents(queue, vals, new) ==
  IF vals # {} /\ new \in vals
    THEN [w \in Users |-> IF convSub[w] THEN Append(queue[w], new) ELSE queue[w]]
    ELSE queue

\* GroupMessageArea of u after its mount (fresh state, chat is the selected
\* chat object) or after its unmount (chat "none"): no user, no
\* subscriptions; queue is the event queue of everybody before the step
ChatViewReset(u, chat, queue) ==
  /\ chatFetch' = [chatFetch EXCEPT ![u] = "pending"]
  /\ chatIsTA' = [chatIsTA EXCEPT ![u] = FALSE]
  /\ isCallActive' = [isCallActive EXCEPT ![u] = InitialIsCallActive(chat)]
  /\ callParticipants' = [callParticipants EXCEPT ![u] = <<>>]
  /\ convSub' = [convSub EXCEPT ![u] = FALSE]
  /\ watchSub' = [watchSub EXCEPT ![u] = FALSE]
  /\ convQueue' = [queue EXCEPT ![u] = <<>>]

\* the classroom page was opened through /classroom/<id>; nobody has loaded
\* the current user yet, nobody is in the call
ChatInit ==
  /\ selectedChat = [u \in Users |-> "id"]
  /\ chatFetch = [u \in Users |-> "pending"]
  /\ chatIsTA = [u \in Users |-> FALSE]
  /\ isCallActive = [u \in Users |-> FALSE]
  /\ callParticipants = [u \in Users |-> <<>>]
  /\ convSub = [u \in Users |-> FALSE]
  /\ watchSub = [u \in Users |-> FALSE]
  /\ convQueue = [u \in Users |-> <<>>]
  /\ presence = [u \in Users |-> "none"]
  /\ presenceState = [u \in Users |-> <<>>]
  /\ toasted = {}

\* ---------------------------------------------------------------- Init
Init ==
  /\ phase = [u \in Users |-> "Idle"]
  /\ isTeacherOrAdmin = [u \in Users |-> FALSE]
  /\ metaRole = [u \in Users |-> "none"]
  /\ raisedHands = [u \in Users |-> {}]
  /\ micPermissionsMap = [u \in Users |-> EmptyMap]
  /\ canSpeak = [u \in Users |-> FALSE]
  /\ micEnabled = [u \in Users |-> FALSE]
  /\ micConfirmation = [u \in Users |-> NoUser]
  /\ endPending = [u \in Users |-> 0]
  /\ net = {}
  /\ sent = 0
  /\ is_call_active = FALSE
  /\ sessions = [u \in Users |-> 0]
  /\ lastMicControl = [u \in Users |-> EmptyMap]
  /\ endClicks = [u \in Users |-> 0]
  /\ endCallSent = [u \in Users |-> 0]
  /\ falseWrites = [u \in Users |-> 0]
  /\ endedBy = [u \in Users |-> "none"]
  /\ AudioInit
  /\ RetryIdle
  /\ ChatInit

\* ------------------------------------------------------------- actions

\* unmount of the call view of u: component state is discarded, the
\* broadcast channel is removed, the presence effect cleanup runs; with
\* setInCall(false) the chat view mounts again (after a route change the
\* page is gone: it is the page opened anew, no chat selected)
Leave(u, why, netBase, flagBase, fwBase) ==
  /\ phase' = [phase EXCEPT ![u] = "Ended"]
  /\ endedBy' = [endedBy EXCEPT ![u] = why]
  /\ metaRole' = [metaRole EXCEPT ![u] = "none"]
  /\ SetPeer(u, FreshPeer(FALSE))
  /\ lastMicControl' = [lastMicControl EXCEPT ![u] = EmptyMap]
  /\ micConfirmation' = [micConfirmation EXCEPT ![u] = NoUser]
  /\ endPending' = [endPending EXCEPT ![u] = 0]
  /\ net' = {m \in netBase : m.to # u}
  /\ is_call_active' \in
       UpdateCallStatus(flagBase, CleanupWrites(isTeacherOrAdmin[u]))
  /\ falseWrites' = [fwBase EXCEPT ![u] =
                       @ + Cardinality(CleanupWrites(isTeacherOrAdmin[u]) \cap {FALSE})]
  /\ presence' = [presence EXCEPT ![u] = "none"]
  /\ presenceState' = [presenceState EXCEPT ![u] = RecordsAfterUnsubscribe(@)]
  /\ selectedChat' = IF why = "unmount"
                       THEN [selectedChat EXCEPT ![u] = "none"]
                       ELSE selectedChat
  /\ ChatViewReset(u, selectedChat'[u],
                   ConvEvents(convQueue, CleanupWrites(isTeacherOrAdmin[u]),
                              is_call_active'))
  /\ UNCHANGED toasted

\* Classroom.handleStartCall: setInCall(true), the chat view unmounts (its
\* effect cleanup removes both channels), GroupCallStage mounts loading
StartCall(u) ==
  /\ phase[u] \in {"Idle", "Ended"}
  /\ selectedChat[u] # "none"
  /\ sessions[u] < MaxSessions
  /\ phase' = [phase EXCEPT ![u] = "Connecting"]
  /\ isTeacherOrAdmin' = [isTeacherOrAdmin EXCEPT ![u] = FALSE]
  /\ endClicks' = [endClicks EXCEPT ![u] = 0]
  /\ endCallSent' = [endCallSent EXCEPT ![u] = 0]
  /\ falseWrites' = [falseWrites EXCEPT ![u] = 0]
  /\ endedBy' = [endedBy EXCEPT ![u] = "none"]
  /\ ChatViewReset(u, "none", convQueue)
  /\ presenceState' = [presenceState EXCEPT ![u] = RecordsAfterUnsubscribe(@)]
  /\ UNCHANGED <<metaRole, raisedHands, micPermissionsMap, canSpeak, micEnabled,
                 micConfirmation, endPending, net, sent, is_call_active,
                 sessions, lastMicControl>>
  /\ UNCHANGED <<selectedChat, presence, toasted>>
  /\ UNCHANGED outsideCall

\* GroupCallStage.init succeeds: the token is set, LiveKitRoom and
\* ActiveCallRoom mount, the mount effects run
InitOk(u, lookupOk) ==
  /\ phase[u] = "Connecting"
  /\ LET isTA == IsTeacherOrAdminOf(accountRoles[u], lookupOk) IN
       /\ isTeacherOrAdmin' = [isTeacherOrAdmin EXCEPT ![u] = isTA]
       /\ metaRole' = [metaRole EXCEPT ![u] = TokenRole(isTA)]
       /\ SetPeer(u, FreshPeer(isTA))
       /\ is_call_active' \in UpdateCallStatus(is_call_active, MountWrites(isTA))
  /\ phase' = [phase EXCEPT ![u] = "Room"]
  /\ lastMicControl' = [lastMicControl EXCEPT ![u] = EmptyMap]
  /\ micConfirmation' = [micConfirmation EXCEPT ![u] = NoUser]
  /\ sessions' = [sessions EXCEPT ![u] = @ + 1]
  /\ presence' = [presence EXCEPT ![u] = "joining"]
  /\ convQueue' = ConvEvents(convQueue,
                             MountWrites(IsTeacherOrAdminOf(accountRoles[u], lookupOk)),
                             is_call_active')
  /\ UNCHANGED <<endPending, net, sent, endClicks, endCallSent,
                 falseWrites, endedBy>>
  /\ UNCHANGED <<selectedChat, chatFetch, chatIsTA, isCallActive,
                 callParticipants, convSub, watchSub, presenceState, toasted>>
  /\ UNCHANGED outsideCall

\* GroupCallStage.init throws (no user, token request error): error screen
InitFail(u) ==
  /\ phase[u] = "Connecting"
  /\ phase' = [phase EXCEPT ![u] = "Error"]
  /\ UNCHANGED <<isTeacherOrAdmin, metaRole, raisedHands, micPermissionsMap,
                 canSpeak, micEnabled, micConfirmation, endPending, net, sent,
                 is_call_active, sessions, lastMicControl, endClicks,
                 endCallSent, falseWrites, endedBy>>
  /\ UNCHANGED <<outsideCall, chatVars>>

\* variant: a failed token request is not noticed
InitResultIgnoresTokenError(authenticated, tokenOk) ==
  IF authenticated THEN "Room" ELSE "Error"

\* GroupCallStage.init: what is rendered once loading is over
InitResult(authenticated, tokenOk) ==
  IF authenticated /\ tokenOk THEN "Room" ELSE "Error"

\* GroupCallStage.init with its three requests: getUser, the role lookup and
\* the token request
GroupCallInit(u, authenticated, lookupOk, tokenOk) ==
  IF InitResult(authenticated, tokenOk) = "Room"
    THEN InitOk(u, lookupOk)
    ELSE InitFail(u)

\* Close button of the error screen: onEndCall, setInCall(false)
CloseError(u) ==
  /\ phase[u] = "Error"
  /\ phase' = [phase EXCEPT ![u] = "Idle"]
  /\ ChatViewReset(u, selectedChat[u], convQueue)
  /\ UNCHANGED <<isTeacherOrAdmin, metaRole, raisedHands, micPermissionsMap,
                 canSpeak, micEnabled, micConfirmation, endPending, net, sent,
                 is_call_active, sessions, lastMicControl, endClicks,
                 endCallSent, falseWrites, endedBy>>
  /\ UNCHANGED <<selectedChat, presence, presenceState, toasted>>
  /\ UNCHANGED outsideCall

\* the media transport connects; LiveKitRoom audio={isTeacherOrAdmin}
MediaConnected(u) ==
  /\ phase[u] = "Room"
  /\ phase' = [phase EXCEPT ![u] = "Active"]
  /\ micEnabled' = [micEnabled EXCEPT ![u] = isTeacherOrAdmin[u]]
  /\ UNCHANGED <<isTeacherOrAdmin, metaRole, raisedHands, micPermissionsMap,
                 canSpeak, micConfirmation, endPending, net, sent,
                 is_call_active, sessions, lastMicControl, endClicks,
                 endCallSent, falseWrites, endedBy>>
  /\ UNCHANGED <<outsideCall, chatVars>>

\* the media transport drops: LiveKitRoom onDisconnected = onEndCall
TransportDisconnect(u) ==
  /\ phase[u] = "Active"
  /\ Leave(u, "transport", net, is_call_active, falseWrites)
  /\ UNCHANGED <<isTeacherOrAdmin, sent, sessions, endClicks, endCallSent>>
  /\ UNCHANGED outsideCall

\* the call view unmounts without any call action (route change)
Unmount(u) ==
  /\ Mounted(u)
  /\ Leave(u, "unmount", net, is_call_active, falseWrites)
  /\ UNCHANGED <<isTeacherOrAdmin, sent, sessions, endClicks, endCallSent>>
  /\ UNCHANGED outsideCall

\* one record per subscribed peer other than the sender
Broadcast(from, kind, target, val, id) ==
  {[kind |-> kind, from |-> from, to |-> v, target |-> target, val |-> val,
    id |-> id] : v \in {w \in Users : Mounted(w) /\ w # from}}

\* toggleRaiseHand (the button is rendered for non teacher/admin only)
ToggleRaiseHand(u) ==
  /\ Mounted(u)
  /\ ~isTeacherOrAdmin[u]
  /\ sent < MaxSends
  /\ SetPeer(u, ToggleRaiseHandLocal(PeerState(u), u))
  /\ net' = net \cup Broadcast(u, "raise_hand", u, u \notin raisedHands[u], sent + 1)
  /\ sent' = sent + 1
  /\ UNCHANGED <<phase, isTeacherOrAdmin, metaRole, micConfirmation, endPending,
                 is_call_active, sessions, lastMicControl, endClicks,
                 endCallSent, falseWrites, endedBy>>
  /\ UNCHANGED <<outsideCall, chatVars>>

\* toggleMic through the mic button, rendered when canSpeak
ToggleMic(u) ==
  /\ Mounted(u)
  /\ canSpeak[u]
  /\ SetPeer(u, ToggleMicLocal(PeerState(u)))
  /\ UNCHANGED <<phase, isTeacherOrAdmin, metaRole, micConfirmation, endPending,
                 net, sent, is_call_active, sessions, lastMicControl, endClicks,
                 endCallSent, falseWrites, endedBy>>
  /\ UNCHANGED <<outsideCall, chatVars>>

\* initiateMicControl from the tile of another participant
InitiateMicControl(u, p) ==
  /\ Mounted(u)
  /\ p \in Roster(u) /\ p # u
  /\ isTeacherOrAdmin[u]
  /\ micConfirmation[u] = NoUser
  /\ micConfirmation' = [micConfirmation EXCEPT ![u] = p]
  /\ UNCHANGED <<phase, isTeacherOrAdmin, metaRole, raisedHands,
                 micPermissionsMap, canSpeak, micEnabled, endPending, net, sent,
                 is_call_active, sessions, lastMicControl, endClicks,
                 endCallSent, falseWrites, endedBy>>
  /\ UNCHANGED <<outsideCall, chatVars>>

\* Cancel button of the modal
CancelMicControl(u) ==
  /\ Mounted(u)
  /\ micConfirmation[u] # NoUser
  /\ micConfirmation' = [micConfirmation EXCEPT ![u] = NoUser]
  /\ UNCHANGED <<phase, isTeacherOrAdmin, metaRole, raisedHands,
                 micPermissionsMap, canSpeak, micEnabled, endPending, net, sent,
                 is_call_active, sessions, lastMicControl, endClicks,
                 endCallSent, falseWrites, endedBy>>
  /\ UNCHANGED <<outsideCall, chatVars>>

\* executeMicControl: local update, broadcast, modal closed
ExecuteMicControl(u, unmute) ==
  /\ Mounted(u)
  /\ micConfirmation[u] # NoUser
  /\ sent < MaxSends
  /\ LET studentId == micConfirmation[u] IN
       /\ SetPeer(u, ExecuteMicControlLocal(PeerState(u), studentId, unmute))
       /\ lastMicControl' = [lastMicControl EXCEPT ![u] =
                               Spread(@, studentId, unmute)]
       /\ net' = net \cup Broadcast(u, "mic_control", studentId, unmute, sent + 1)
  /\ sent' = sent + 1
  /\ micConfirmation' = [micConfirmation EXCEPT ![u] = NoUser]
  /\ UNCHANGED <<phase, isTeacherOrAdmin, metaRole, endPending, is_call_active,
                 sessions, endClicks, endCallSent, falseWrites, endedBy>>
  /\ UNCHANGED <<outsideCall, chatVars>>

\* handleEndCallAction up to its await (either end-call button).  A caller
\* that is not teacher/admin has no await and disconnects in the same step.
EndCallClick(u) ==
  /\ Mounted(u)
  /\ endPending[u] < MaxEndClicks
  /\ endClicks' = [endClicks EXCEPT ![u] = @ + 1]
  /\ LET isTA == isTeacherOrAdmin[u]
         fw   == [falseWrites EXCEPT ![u] =
                    @ + Cardinality(EndCallWrites(isTA) \cap {FALSE})]
     IN /\ endCallSent' = [endCallSent EXCEPT ![u] =
                             IF EndCallBroadcasts(isTA) THEN @ + 1 ELSE @]
        /\ IF EndCallBroadcasts(isTA)
             THEN /\ endPending' = [endPending EXCEPT ![u] = @ + 1]
                  /\ net' = net \cup Broadcast(u, "end_call", NoUser, FALSE, 0)
                  /\ is_call_active' \in
                       UpdateCallStatus(is_call_active, EndCallWrites(isTA))
                  /\ falseWrites' = fw
                  /\ convQueue' = ConvEvents(convQueue, EndCallWrites(isTA),
                                             is_call_active')
                  /\ UNCHANGED <<phase, metaRole, raisedHands, micPermissionsMap,
                                 lastMicControl, canSpeak, micEnabled,
                                 micConfirmation, endedBy>>
                  /\ UNCHANGED <<selectedChat, chatFetch, chatIsTA, isCallActive,
                                 callParticipants, convSub, watchSub, presence,
                                 presenceState, toasted>>
             ELSE \E flag \in UpdateCallStatus(is_call_active, EndCallWrites(isTA)) :
                    Leave(u, "action", net, flag, fw)
  /\ UNCHANGED <<isTeacherOrAdmin, sent, sessions>>
  /\ UNCHANGED outsideCall

\* handleEndCallAction after its await has resolved to result:
\* room.disconnect(), onDisconnected
EndCallFinish(u, result) ==
  /\ Mounted(u)
  /\ endPending[u] > 0
  /\ IF EndCallProceeds(result)
       THEN Leave(u, "action", net, is_call_active, falseWrites)
       ELSE /\ endPending' = [endPending EXCEPT ![u] = @ - 1]
            /\ UNCHANGED <<phase, endedBy, metaRole, raisedHands,
                           micPermissionsMap, canSpeak, micEnabled,
                           lastMicControl, micConfirmation, net,
                           is_call_active, falseWrites>>
            /\ UNCHANGED chatVars
  /\ UNCHANGED <<isTeacherOrAdmin, sent, sessions, endClicks, endCallSent>>
  /\ UNCHANGED outsideCall

\* a raise_hand broadcast reaches its recipient
DeliverRaiseHand(m) ==
  /\ m \in net /\ m.kind = "raise_hand"
  /\ Mounted(m.to)
  /\ SetPeer(m.to, OnRaiseHand(PeerState(m.to), m.target, m.val))
  /\ net' = net \ {m}
  /\ UNCHANGED <<phase, isTeacherOrAdmin, metaRole, micConfirmation, endPending,
                 sent, is_call_active, sessions, lastMicControl, endClicks,
                 endCallSent, falseWrites, endedBy>>
  /\ UNCHANGED <<outsideCall, chatVars>>

\* a mic_control broadcast reaches its recipient
DeliverMicControl(m) ==
  /\ m \in net /\ m.kind = "mic_control"
  /\ Mounted(m.to)
  /\ SetPeer(m.to, OnMicControl(PeerState(m.to), m.to, m.target, m.val))
  /\ lastMicControl' = [lastMicControl EXCEPT ![m.to] = Spread(@, m.target, m.val)]
  /\ net' = net \ {m}
  /\ UNCHANGED <<phase, isTeacherOrAdmin, metaRole, micConfirmation, endPending,
                 sent, is_call_active, sessions, endClicks, endCallSent,
                 falseWrites, endedBy>>
  /\ UNCHANGED <<outsideCall, chatVars>>

\* an end_call broadcast reaches its recipient: room.disconnect()
DeliverEndCall(m) ==
  /\ m \in net /\ m.kind = "end_call"
  /\ Mounted(m.to)
  /\ IF OnEndCall(isTeacherOrAdmin[m.to])
       THEN Leave(m.to, "end_call", net \ {m}, is_call_active, falseWrites)
       ELSE /\ net' = net \ {m}
            /\ UNCHANGED <<phase, endedBy, metaRole, raisedHands,
                           micPermissionsMap, canSpeak, micEnabled,
                           lastMicControl, micConfirmation, endPending,
                           is_call_active, falseWrites>>
            /\ UNCHANGED chatVars
  /\ UNCHANGED <<isTeacherOrAdmin, sent, sessions, endClicks, endCallSent>>
  /\ UNCHANGED outsideCall

\* ------------------------------------------- moderation inside a running call
\* All three accounts have joined and are connected; each role lookup has
\* succeeded or failed.  State of every ActiveCallRoom right after its mount.
InitStage ==
  /\ \E ok \in [Users -> BOOLEAN] :
       isTeacherOrAdmin = [u \in Users |-> IsTeacherOrAdminOf(accountRoles[u], ok[u])]
  /\ phase = [u \in Users |-> "Active"]
  /\ metaRole = [u \in Users |-> TokenRole(isTeacherOrAdmin[u])]
  /\ raisedHands = [u \in Users |-> FreshPeer(isTeacherOrAdmin[u]).hands]
  /\ micPermissionsMap = [u \in Users |-> FreshPeer(isTeacherOrAdmin[u]).map]
  /\ canSpeak = [u \in Users |-> FreshPeer(isTeacherOrAdmin[u]).canSpeak]
  /\ micEnabled = isTeacherOrAdmin
  /\ micConfirmation = [u \in Users |-> NoUser]
  /\ endPending = [u \in Users |-> 0]
  /\ net = {}
  /\ sent = 0
  /\ is_call_active = (\E u \in Users : isTeacherOrAdmin[u])
  /\ sessions = [u \in Users |-> 1]
  /\ lastMicControl = [u \in Users |-> EmptyMap]
  /\ endClicks = [u \in Users |-> 0]
  /\ endCallSent = [u \in Users |-> 0]
  /\ falseWrites = [u \in Users |-> 0]
  /\ endedBy = [u \in Users |-> "none"]
  /\ AudioInit
  /\ RetryIdle
  /\ ChatInit

NextStage ==
  \/ \E u \in Users : ToggleRaiseHand(u)
  \/ \E u \in Users : \E p \in Users : InitiateMicControl(u, p)
  \/ \E u \in Users : CancelMicControl(u)
  \/ \E u \in Users : \E unmute \in BOOLEAN : ExecuteMicControl(u, unmute)
  \/ \E m \in net : DeliverRaiseHand(m)
  \/ \E m \in net : DeliverMicControl(m)

SpecStage == InitStage /\ [][NextStage]_vars

\* ------------------------------------------ microphones inside a running call
\* variant: the badge of the own tile toggles the microphone for every
\* viewer, in the audience too
OwnBadgeTogglesAnywhere(canControl, onStage) == TRUE

\* does a click on the mic badge of the own tile reach toggleMic(): MicBadge
\* calls onClick only when canControl (the viewer is teacher/admin), and
\* only the onToggleMic of a stage tile calls toggleMic() for the local
\* participant; the tile itself is clickable for other participants only
OwnBadgeToggles(canControl, onStage) == canControl /\ onStage

\* click on the mic badge of the own tile
ToggleMicOwnBadge(u) ==
  /\ Mounted(u)
  /\ OwnBadgeToggles(isTeacherOrAdmin[u], u \in Stage(u))
  /\ SetPeer(u, ToggleMicLocal(PeerState(u)))
  /\ UNCHANGED <<phase, isTeacherOrAdmin, metaRole, micConfirmation, endPending,
                 net, sent, is_call_active, sessions, lastMicControl, endClicks,
                 endCallSent, falseWrites, endedBy>>
  /\ UNCHANGED <<outsideCall, chatVars>>

\* mic_control broadcasts and the participants' own microphone toggles
NextMic ==
  \/ \E u \in Users : \E p \in Users : InitiateMicControl(u, p)
  \/ \E u \in Users : CancelMicControl(u)
  \/ \E u \in Users : \E unmute \in BOOLEAN : ExecuteMicControl(u, unmute)
  \/ \E m \in net : DeliverMicControl(m)
  \/ \E u \in Users : ToggleMic(u)
  \/ \E u \in Users : ToggleMicOwnBadge(u)

SpecMic == InitStage /\ [][NextMic]_vars

\* ------------------------------------------------- call lifecycle and end call
NextLife ==
  \/ \E u \in Users : StartCall(u)
  \/ \E u \in Users : \E authenticated, lookupOk, tokenOk \in BOOLEAN :
       GroupCallInit(u, authenticated, lookupOk, tokenOk)
  \/ \E u \in Users : CloseError(u)
  \/ \E u \in Users : MediaConnected(u)
  \/ \E u \in Users : TransportDisconnect(u)
  \/ \E u \in Users : Unmount(u)
  \/ \E u \in Users : ToggleMic(u)
  \/ \E u \in Users : EndCallClick(u)
  \/ \E u \in Users : \E result \in SendResults : EndCallFinish(u, result)
  \/ \E m \in net : DeliverEndCall(m)

SpecLife == Init /\ [][NextLife]_vars

\* --------------------------------------------- useSoundboardAudio actions

\* initAudioContext up to its await, when it does not return at once: the
\* context and the gain nodes are created, getUserMedia is called
BuildGraph ==
  /\ audioContext' = TRUE
  /\ graphsBuilt' = graphsBuilt + 1
  /\ gains' = [mic |-> voiceVolume, bgm |-> bgmVolume]
  /\ micPrompt' = micPrompt + 1
  /\ micRequests' = micRequests + 1

\* in which situation a call of initAudioContext finds the hook
InitSituation ==
  IF isReady THEN "ready" ELSE IF micPrompt > 0 THEN "pending" ELSE "failed"

\* a caller calls initAudioContext
InitAudioContext ==
  /\ hookMounted
  /\ IF InitSkips(audioContext, isReady)
       THEN /\ skipped' = skipped \cup {InitSituation}
            /\ UNCHANGED <<audioContext, graphsBuilt, gains, micPrompt,
                           micRequests>>
       ELSE /\ BuildGraph
            /\ UNCHANGED skipped
  /\ UNCHANGED <<isReady, error, wires, audioBuffer, playbackVars, loads,
                 ctxTime, voiceVolume, bgmVolume, plays, loadCalls>>
  /\ UNCHANGED <<outsideAudio, hookMounted>>

\* loadAudioFile calls that awaited initAudioContext go on to decode
AfterInit(ls) ==
  {[l EXCEPT !.stage = "decode"] : l \in ls}

\* getUserMedia resolves: initAudioContext wires the graph, setIsReady(true)
GetUserMediaResolved ==
  /\ micPrompt > 0
  /\ micPrompt' = micPrompt - 1
  /\ wires' = [e \in Edges |-> wires[e] + 1]
  /\ isReady' = TRUE
  /\ loads' = AfterInit(loads)
  /\ UNCHANGED <<audioContext, error, audioBuffer, playbackVars, ctxTime,
                 voiceVolume, bgmVolume, gains, plays, loadCalls, micRequests,
                 graphsBuilt, skipped>>
  /\ UNCHANGED <<outsideAudio, hookMounted>>

\* getUserMedia rejects: the catch of initAudioContext sets the error
GetUserMediaRejected ==
  /\ micPrompt > 0
  /\ micPrompt' = micPrompt - 1
  /\ error' = "init"
  /\ loads' = AfterInit(loads)
  /\ UNCHANGED <<audioContext, isReady, wires, audioBuffer, playbackVars,
                 ctxTime, voiceVolume, bgmVolume, gains, plays, loadCalls,
                 micRequests, graphsBuilt, skipped>>
  /\ UNCHANGED <<outsideAudio, hookMounted>>

\* a caller calls loadAudioFile with a file that decodes to dur ticks (0: the
\* decode fails); without a context the call first awaits initAudioContext
LoadAudioFile(dur) ==
  /\ hookMounted
  /\ loadCalls < MaxLoads
  /\ loadCalls' = loadCalls + 1
  /\ loads' = loads \cup {[id |-> loadCalls + 1, dur |-> dur,
                           wasPlaying |-> isPlaying,
                           stage |-> IF audioContext THEN "decode" ELSE "init"]}
  /\ IF audioContext
       THEN UNCHANGED <<audioContext, graphsBuilt, gains, micPrompt, micRequests>>
       ELSE BuildGraph
  /\ UNCHANGED <<isReady, error, wires, audioBuffer, playbackVars, ctxTime,
                 voiceVolume, bgmVolume, plays, skipped>>
  /\ UNCHANGED <<outsideAudio, hookMounted>>

\* loadAudioFile after its awaits (arrayBuffer, decodeAudioData)
DecodeDone(l) ==
  /\ l \in loads /\ l.stage = "decode"
  /\ loads' = loads \ {l}
  /\ IF l.dur > 0
       THEN /\ audioBuffer' = l.dur
            /\ SetPlayback(IF LoadStops(l.wasPlaying) THEN StopAudio(Playback)
                                                      ELSE Playback)
            /\ error' = "none"
       ELSE /\ error' = "load"
            /\ UNCHANGED <<audioBuffer, playbackVars>>
  /\ UNCHANGED <<audioContext, isReady, micPrompt, wires, ctxTime, voiceVolume,
                 bgmVolume, gains, plays, loadCalls, micRequests, graphsBuilt,
                 skipped>>
  /\ UNCHANGED <<outsideAudio, hookMounted>>

\* variant: every play connects the bgm gain node to its two outputs
PlayWiresReconnects(w) ==
  [w EXCEPT !["bgmToDest"] = @ + 1, !["bgmToLocal"] = @ + 1]

\* playAudio: connections of the graph after a play that starts a source (the
\* source is connected to the bgm gain node, the gain node is left alone)
PlayWires(w) == w

\* a caller calls playAudio
CallPlayAudio ==
  /\ hookMounted
  /\ IF PlayReturnsEarly(audioContext, audioBuffer)
       THEN /\ skipped' = skipped \cup
                 {IF audioContext THEN "playNoBuffer" ELSE "playNoContext"}
            /\ UNCHANGED <<playbackVars, plays, wires>>
       ELSE /\ plays < MaxPlays
            /\ plays' = plays + 1
            /\ SetPlayback(PlayAudio(Playback, audioContext, audioBuffer,
                                     ctxTime, plays + 1))
            /\ wires' = PlayWires(wires)
            /\ UNCHANGED skipped
  /\ UNCHANGED <<audioContext, isReady, error, micPrompt, audioBuffer,
                 loads, ctxTime, voiceVolume, bgmVolume, gains, loadCalls,
                 micRequests, graphsBuilt>>
  /\ UNCHANGED <<outsideAudio, hookMounted>>

\* a caller calls stopAudio
CallStopAudio ==
  /\ hookMounted
  /\ SetPlayback(StopAudio(Playback))
  /\ UNCHANGED <<audioContext, isReady, error, micPrompt, wires, audioBuffer,
                 loads, ctxTime, voiceVolume, bgmVolume, gains, plays,
                 loadCalls, micRequests, graphsBuilt, skipped>>
  /\ UNCHANGED <<outsideAudio, hookMounted>>

\* the audio clock advances; a playing source whose buffer has run out ends
ClockAdvances ==
  /\ audioContext
  /\ ctxTime < MaxTime
  /\ ctxTime' = ctxTime + 1
  /\ sources' = [k \in SourceIds |->
                   IF sources[k].state = "playing" /\ sources[k].end <= ctxTime + 1
                     THEN [state |-> "ended", end |-> 0]
                     ELSE sources[k]]
  /\ UNCHANGED <<audioContext, isReady, error, micPrompt, wires, audioBuffer,
                 isPlaying, currentTime, pausedAt, startTime, bgmSource, frames,
                 animationFrame, loads, voiceVolume, bgmVolume, gains, plays,
                 loadCalls, micRequests, graphsBuilt, skipped>>
  /\ UNCHANGED <<outsideAudio, hookMounted>>

\* the animation frame of the progress loop of source k runs
AnimationFrame(k) ==
  /\ k \in frames
  /\ SetPlayback(UpdateProgress(Playback, k, audioBuffer, ctxTime))
  /\ UNCHANGED <<audioContext, isReady, error, micPrompt, wires, audioBuffer,
                 loads, ctxTime, voiceVolume, bgmVolume, gains, plays,
                 loadCalls, micRequests, graphsBuilt, skipped>>
  /\ UNCHANGED <<outsideAudio, hookMounted>>

\* the ended event of source k (stopped, or its buffer ran out) is dispatched
EndedEvent(k) ==
  /\ sources[k].state = "ended"
  /\ SetPlayback(OnEnded(Playback, k))
  /\ UNCHANGED <<audioContext, isReady, error, micPrompt, wires, audioBuffer,
                 loads, ctxTime, voiceVolume, bgmVolume, gains, plays,
                 loadCalls, micRequests, graphsBuilt, skipped>>
  /\ UNCHANGED <<outsideAudio, hookMounted>>

\* setVoiceVolume(v) and the voiceVolume effect
SetVoiceVolume(v) ==
  /\ hookMounted
  /\ voiceVolume' = v
  /\ gains' = IF audioContext THEN [gains EXCEPT !.mic = GainTarget(v)] ELSE gains
  /\ UNCHANGED <<audioContext, isReady, error, micPrompt, wires, audioBuffer,
                 playbackVars, loads, ctxTime, bgmVolume, plays, loadCalls,
                 micRequests, graphsBuilt, skipped>>
  /\ UNCHANGED <<outsideAudio, hookMounted>>

\* setBgmVolume(v) and the bgmVolume effect
SetBgmVolume(v) ==
  /\ hookMounted
  /\ bgmVolume' = v
  /\ gains' = IF audioContext THEN [gains EXCEPT !.bgm = GainTarget(v)] ELSE gains
  /\ UNCHANGED <<audioContext, isReady, error, micPrompt, wires, audioBuffer,
                 playbackVars, loads, ctxTime, voiceVolume, plays, loadCalls,
                 micRequests, graphsBuilt, skipped>>
  /\ UNCHANGED <<outsideAudio, hookMounted>>

\* the call state while only the soundboard is looked at
CallIdle ==
  /\ phase = [u \in Users |-> "Idle"]
  /\ isTeacherOrAdmin = [u \in Users |-> FALSE]
  /\ metaRole = [u \in Users |-> "none"]
  /\ raisedHands = [u \in Users |-> {}]
  /\ micPermissionsMap = [u \in Users |-> EmptyMap]
  /\ canSpeak = [u \in Users |-> FALSE]
  /\ micEnabled = [u \in Users |-> FALSE]
  /\ micConfirmation = [u \in Users |-> NoUser]
  /\ endPending = [u \in Users |-> 0]
  /\ net = {}
  /\ sent = 0
  /\ is_call_active = FALSE
  /\ sessions = [u \in Users |-> 0]
  /\ lastMicControl = [u \in Users |-> EmptyMap]
  /\ endClicks = [u \in Users |-> 0]
  /\ endCallSent = [u \in Users |-> 0]
  /\ falseWrites = [u \in Users |-> 0]
  /\ endedBy = [u \in Users |-> "none"]

\* ------------------------------------------------ soundboard: graph and player
InitAudio == CallIdle /\ AudioInit /\ RetryIdle /\ ChatInit

\* initAudioContext, loadAudioFile, playAudio and stopAudio in any order,
\* with the answers to the microphone prompt and the decodes; the audio
\* clock stands still and no animation frame or ended event is dispatched
NextGraph ==
  \/ InitAudioContext
  \/ GetUserMediaResolved
  \/ GetUserMediaRejected
  \/ \E dur \in FileDurations : LoadAudioFile(dur)
  \/ \E l \in loads : DecodeDone(l)
  \/ CallPlayAudio
  \/ CallStopAudio

SpecGraph == InitAudio /\ [][NextGraph]_vars

\* -------------------------------------------------- soundboard: the player
\* The hook after one initAudioContext whose microphone request was granted.
InitPlayer ==
  /\ CallIdle
  /\ RetryIdle
  /\ ChatInit
  /\ audioContext = TRUE
  /\ isReady = TRUE
  /\ error = "none"
  /\ micPrompt = 0
  /\ wires = [e \in Edges |-> 1]
  /\ audioBuffer = 0
  /\ isPlaying = FALSE
  /\ currentTime = 0
  /\ pausedAt = 0
  /\ startTime = 0
  /\ bgmSource = 0
  /\ sources = [k \in SourceIds |-> [state |-> "idle", end |-> 0]]
  /\ frames = {}
  /\ animationFrame = 0
  /\ loads = {}
  /\ ctxTime = 0
  /\ voiceVolume = InitialVolume
  /\ bgmVolume = InitialVolume
  /\ gains = [mic |-> InitialVolume, bgm |-> InitialVolume]
  /\ plays = 0
  /\ loadCalls = 0
  /\ micRequests = 1
  /\ graphsBuilt = 1
  /\ skipped = {}
  /\ hookMounted = TRUE

NextPlayer ==
  \/ \E dur \in FileDurations : LoadAudioFile(dur)
  \/ \E l \in loads : DecodeDone(l)
  \/ CallPlayAudio
  \/ CallStopAudio
  \/ ClockAdvances
  \/ \E k \in SourceIds : AnimationFrame(k)
  \/ \E k \in SourceIds : EndedEvent(k)

SpecPlayer == InitPlayer /\ [][NextPlayer]_vars

\* --------------------------------------------------- soundboard: the two gains
NextGain ==
  \/ InitAudioContext
  \/ GetUserMediaResolved
  \/ GetUserMediaRejected
  \/ \E v \in VolumeInputs : SetVoiceVolume(v)
  \/ \E v \in VolumeInputs : SetBgmVolume(v)

SpecGain == InitAudio /\ [][NextGain]_vars

\* ------------------------------------------- soundboard: unmount of the user
\* the component that uses the hook unmounts: the hook has no effect cleanup,
\* so refs, nodes, the stream and scheduled callbacks stay as they are
UnmountHook ==
  /\ hookMounted
  /\ hookMounted' = FALSE
  /\ UNCHANGED <<audioContext, isReady, error, micPrompt, wires, audioBuffer,
                 playbackVars, loads, ctxTime, voiceVolume, bgmVolume, gains,
                 plays, loadCalls, micRequests, graphsBuilt, skipped>>
  /\ UNCHANGED outsideAudio

\* the MediaStream returned by getUserMedia is live: it was handed to
\* createMediaStreamSource and wired; no code stops its tracks or closes the
\* context
MicStreamLive == wires["micToGain"] > 0

\* the hook from its first render to after its unmount; the audio clock
\* stands still
NextTeardown ==
  \/ InitAudioContext
  \/ GetUserMediaResolved
  \/ GetUserMediaRejected
  \/ \E dur \in FileDurations : LoadAudioFile(dur)
  \/ \E l \in loads : DecodeDone(l)
  \/ CallPlayAudio
  \/ CallStopAudio
  \/ \E k \in SourceIds : AnimationFrame(k)
  \/ \E k \in SourceIds : EndedEvent(k)
  \/ UnmountHook

SpecTeardown == InitAudio /\ [][NextTeardown]_vars

\* ------------------------------------------------ classroomService.fetchWithRetry
\* values of the delay argument, in time units
RetryDelays == {1, 2}

\* values fn resolves with and errors it rejects with
FnOutcomes == {1, 2}

\* variant: the loop gives up one attempt early
RetryGivesUpEarly(i, retries) == i >= retries - 2

\* the catch block: if (i === retries - 1) throw error
RetryGivesUp(i, retries) == i = retries - 1

\* fetchWithRetry(fn, retries, delay) is called: the loop is entered and fn
\* is invoked for the first time
FetchWithRetry(retries, delay) ==
  /\ retry.stage = "idle"
  /\ retry' = [retry EXCEPT !.retries = retries, !.delay = delay, !.i = 0,
                            !.stage = "awaiting", !.calls = 1]
  /\ UNCHANGED <<callVars, audioVars, chatVars>>

\* the promise of fn() resolves: return await fn()
FnResolves(value) ==
  /\ retry.stage = "awaiting"
  /\ retry' = [retry EXCEPT !.stage = "returned", !.last = value,
                            !.result = value]
  /\ UNCHANGED <<callVars, audioVars, chatVars>>

\* the promise of fn() rejects: the catch block throws or starts the wait
\* of delay * (i + 1)
FnRejects(err) ==
  /\ retry.stage = "awaiting"
  /\ retry' = IF RetryGivesUp(retry.i, retry.retries)
                THEN [retry EXCEPT !.stage = "thrown", !.last = err,
                                   !.result = err]
                ELSE [retry EXCEPT !.stage = "sleeping", !.last = err,
                                   !.sleeps = @ + 1,
                                   !.waited = @ + retry.delay * (retry.i + 1)]
  /\ UNCHANGED <<callVars, audioVars, chatVars>>

\* the timer of the wait fires: i++, and fn is invoked again while
\* i < retries; a loop that runs out returns undefined (result 0)
RetryTimerFires ==
  /\ retry.stage = "sleeping"
  /\ retry' = IF retry.i + 1 < retry.retries
                THEN [retry EXCEPT !.i = @ + 1, !.stage = "awaiting",
                                   !.calls = @ + 1]
                ELSE [retry EXCEPT !.i = @ + 1, !.stage = "returned",
                                   !.result = 0]
  /\ UNCHANGED <<callVars, audioVars, chatVars>>

InitRetry == CallIdle /\ AudioInit /\ RetryIdle /\ ChatInit

NextRetry ==
  \/ \E retries \in 1..MaxRetries : \E delay \in RetryDelays :
       FetchWithRetry(retries, delay)
  \/ \E value \in FnOutcomes : FnResolves(value)
  \/ \E err \in FnOutcomes : FnRejects(err)
  \/ RetryTimerFires

\* timers fire and the promise of fn settles
SpecRetry == InitRetry /\ [][NextRetry]_vars /\ WF_vars(NextRetry)

\* ------------------------------------------------------ the whole program
\* ------------------------------------------------------ chat view actions

\* users whose chat view is exercised
ChatUsers == {"t1", "s1"}

\* the ways a chat gets selected: a click in the lobby (the lobby's object)
\* or the URL effect (an object holding the id only)
SelectWays == {"lobby", "url"}

\* effect of GroupMessageArea on [chat?.id, currentUser] once both are there:
\* both channels are subscribed, the presence one without userInfo
ChatSubscribe(u) ==
  /\ convSub' = [convSub EXCEPT ![u] = TRUE]
  /\ watchSub' = [watchSub EXCEPT ![u] = TRUE]
  /\ presenceState' = [presenceState EXCEPT ![u] =
                         IF Tracks("SUBSCRIBED", FALSE)
                           THEN Append(@, [id |-> u, nickname |-> ""])
                           ELSE @]

\* cleanup of that effect: both channels are removed, events on their way
\* are never handled
ChatUnsubscribe(u) ==
  /\ convSub' = [convSub EXCEPT ![u] = FALSE]
  /\ watchSub' = [watchSub EXCEPT ![u] = FALSE]
  /\ convQueue' = [convQueue EXCEPT ![u] = <<>>]
  /\ presenceState' = [presenceState EXCEPT ![u] = RecordsAfterUnsubscribe(@)]

\* fetchUser of GroupMessageArea up to its await: setCurrentUser(user); the
\* subscribing effect runs if a chat is selected
FetchUserDone(u) ==
  /\ ChatMounted(u)
  /\ chatFetch[u] = "pending"
  /\ chatFetch' = [chatFetch EXCEPT ![u] = "user"]
  /\ IF selectedChat[u] # "none"
       THEN ChatSubscribe(u)
       ELSE UNCHANGED <<convSub, watchSub, presenceState>>
  /\ UNCHANGED <<selectedChat, chatIsTA, isCallActive, callParticipants,
                 convQueue, presence, toasted>>
  /\ UNCHANGED <<callVars, audioVars, retry>>

\* fetchUser after its await: setIsTeacherOrAdmin(isTA)
RoleLoaded(u, lookupOk) ==
  /\ ChatMounted(u)
  /\ chatFetch[u] = "user"
  /\ chatFetch' = [chatFetch EXCEPT ![u] = "done"]
  /\ chatIsTA' = [chatIsTA EXCEPT ![u] =
                    IsTeacherOrAdminOf(accountRoles[u], lookupOk)]
  /\ UNCHANGED <<selectedChat, isCallActive, callParticipants, convSub,
                 watchSub, convQueue, presence, presenceState, toasted>>
  /\ UNCHANGED <<callVars, audioVars, retry>>

\* Classroom: handleChatSelect with the lobby's object (read when the lobby
\* loaded, here: just now) or the URL effect's setSelectedChat({ id });
\* the chat view keeps its state and subscribes if the user is loaded
SelectChat(u, how) ==
  /\ ChatMounted(u)
  /\ selectedChat[u] = "none"
  /\ selectedChat' = [selectedChat EXCEPT ![u] =
                        IF how = "url" THEN "id"
                        ELSE IF is_call_active THEN "active" ELSE "inactive"]
  /\ IF chatFetch[u] # "pending"
       THEN ChatSubscribe(u)
       ELSE UNCHANGED <<convSub, watchSub, presenceState>>
  /\ UNCHANGED <<chatFetch, chatIsTA, isCallActive, callParticipants,
                 convQueue, presence, toasted>>
  /\ UNCHANGED <<callVars, audioVars, retry>>

\* navigate('/classroom'): the URL effect's setSelectedChat(null); the
\* effect cleanup runs, the state of the chat view stays
DeselectChat(u) ==
  /\ ChatMounted(u)
  /\ selectedChat[u] # "none"
  /\ selectedChat' = [selectedChat EXCEPT ![u] = "none"]
  /\ ChatUnsubscribe(u)
  /\ UNCHANGED <<chatFetch, chatIsTA, isCallActive, callParticipants,
                 presence, toasted>>
  /\ UNCHANGED <<callVars, audioVars, retry>>

\* handleCallButtonClick: join, start, or the error toast
CallButtonClick(u) ==
  /\ ChatMounted(u)
  /\ selectedChat[u] # "none"
  /\ IF CallButtonEnters(isCallActive[u], Len(callParticipants[u]), chatIsTA[u])
       THEN StartCall(u)
       ELSE /\ toasted' = toasted \cup {u}
            /\ UNCHANGED <<selectedChat, chatFetch, chatIsTA, isCallActive,
                           callParticipants, convSub, watchSub, convQueue,
                           presence, presenceState>>
            /\ UNCHANGED <<callVars, audioVars, retry>>

\* subscribe callback of the presence channel of ActiveCallRoom
PresenceSubscribed(u, nick) ==
  /\ presence[u] = "joining"
  /\ presence' = [presence EXCEPT ![u] = "subscribed"]
  /\ presenceState' = [presenceState EXCEPT ![u] =
                         IF Tracks("SUBSCRIBED", TRUE)
                           THEN Append(@, [id |-> u, nickname |-> nick])
                           ELSE @]
  /\ UNCHANGED <<selectedChat, chatFetch, chatIsTA, isCallActive,
                 callParticipants, convSub, watchSub, convQueue, toasted>>
  /\ UNCHANGED <<callVars, audioVars, retry>>

\* sync callback of the watch-only presence channel
PresenceSync(u) ==
  /\ watchSub[u]
  /\ callParticipants' = [callParticipants EXCEPT ![u] =
                            FlattenPresence(presenceState)]
  /\ UNCHANGED <<selectedChat, chatFetch, chatIsTA, isCallActive, convSub,
                 watchSub, convQueue, presence, presenceState, toasted>>
  /\ UNCHANGED <<callVars, audioVars, retry>>

\* UPDATE callback of the conversation channel
ConvUpdateDelivered(u) ==
  /\ convSub[u]
  /\ convQueue[u] # <<>>
  /\ isCallActive' = [isCallActive EXCEPT ![u] = Head(convQueue[u])]
  /\ convQueue' = [convQueue EXCEPT ![u] = Tail(@)]
  /\ UNCHANGED <<selectedChat, chatFetch, chatIsTA, callParticipants, convSub,
                 watchSub, presence, presenceState, toasted>>
  /\ UNCHANGED <<callVars, audioVars, retry>>

NextChat ==
  \/ \E u \in ChatUsers : FetchUserDone(u)
  \/ \E u \in ChatUsers : \E lookupOk \in BOOLEAN : RoleLoaded(u, lookupOk)
  \/ \E u \in ChatUsers : \E how \in SelectWays : SelectChat(u, how)
  \/ \E u \in ChatUsers : DeselectChat(u)
  \/ \E u \in ChatUsers : CallButtonClick(u)
  \/ \E u \in ChatUsers : \E nick \in Nicknames : PresenceSubscribed(u, nick)
  \/ \E u \in ChatUsers : PresenceSync(u)
  \/ \E u \in ChatUsers : ConvUpdateDelivered(u)
  \/ \E u \in ChatUsers : \E authenticated, lookupOk, tokenOk \in BOOLEAN :
       GroupCallInit(u, authenticated, lookupOk, tokenOk)
  \/ \E u \in ChatUsers : CloseError(u)
  \/ \E u \in ChatUsers : MediaConnected(u)
  \/ \E u \in ChatUsers : TransportDisconnect(u)
  \/ \E u \in ChatUsers : Unmount(u)
  \/ \E u \in ChatUsers : EndCallClick(u)
  \/ \E u \in ChatUsers : \E result \in SendResults : EndCallFinish(u, result)
  \/ \E m \in net : DeliverEndCall(m)

SpecChat == Init /\ [][NextChat]_vars

Next ==
  \/ \E u \in Users : StartCall(u)
  \/ \E u \in Users : \E authenticated, lookupOk, tokenOk \in BOOLEAN :
       GroupCallInit(u, authenticated, lookupOk, tokenOk)
  \/ \E u \in Users : CloseError(u)
  \/ \E u \in Users : MediaConnected(u)
  \/ \E u \in Users : TransportDisconnect(u)
  \/ \E u \in Users : Unmount(u)
  \/ \E u \in Users : ToggleRaiseHand(u)
  \/ \E u \in Users : ToggleMic(u)
  \/ \E u \in Users : ToggleMicOwnBadge(u)
  \/ \E u \in Users : \E p \in Users : InitiateMicControl(u, p)
  \/ \E u \in Users : CancelMicControl(u)
  \/ \E u \in Users : \E unmute \in BOOLEAN : ExecuteMicControl(u, unmute)
  \/ \E u \in Users : EndCallClick(u)
  \/ \E u \in Users : \E result \in SendResults : EndCallFinish(u, result)
  \/ \E m \in net : DeliverRaiseHand(m)
  \/ \E m \in net : DeliverMicControl(m)
  \/ \E m \in net : DeliverEndCall(m)
  \/ NextGraph
  \/ NextPlayer
  \/ NextGain
  \/ NextTeardown
  \/ NextRetry
  \/ NextChat

Spec == Init /\ [][Next]_vars

\* ===================================================================== claims

\* C1: at every peer, every roster participant who joined as teacher or admin
\* is in the stage list and not in the audience list, whatever the peer's
\* mic-permission map holds, an entry false for that participant included.
C1_PrivilegedOnStage ==
  \A v \in Users : Mounted(v) =>
    \A p \in Roster(v) : isTeacherOrAdmin[p] =>
      p \in Stage(v) /\ p \notin Audience(v)

\* C1 witness: a teacher/admin is on a peer's stage although that peer's map
\* holds false for them.
C1_Witness ==
  \E v \in Users : \E p \in Roster(v) :
    /\ Mounted(v) /\ isTeacherOrAdmin[p]
    /\ p \in DOMAIN micPermissionsMap[v] /\ ~micPermissionsMap[v][p]
    /\ p \in Stage(v)

\* C2: at every peer, a roster participant P who is not teacher/admin is on
\* the stage exactly when the mic_control applied last at that peer for P
\* (received, or applied by the peer itself when it sent one) had unmute =
\* true; with no mic_control for P applied, P is in the audience.
C2_StageIffLastGrant ==
  \A v \in Users : Mounted(v) =>
    \A p \in Roster(v) : ~isTeacherOrAdmin[p] =>
      LET granted == p \in DOMAIN lastMicControl[v] /\ lastMicControl[v][p]
      IN /\ (p \in Stage(v)) = granted
         /\ (p \in Audience(v)) = ~granted

\* C2 witness: a peer applied a revoke for P after a grant (another peer still
\* holds the grant) and shows P in the audience.
C2_Witness ==
  \E v, w \in Users : \E p \in Roster(v) :
    /\ Mounted(v) /\ ~isTeacherOrAdmin[p]
    /\ p \in DOMAIN lastMicControl[v] /\ ~lastMicControl[v][p]
    /\ p \in DOMAIN lastMicControl[w] /\ lastMicControl[w][p]
    /\ p \in Audience(v) /\ p \in Stage(w)

\* C3: in the step in which a moderator sends mic_control{target, unmute} its
\* own map holds target -> unmute, and in the step in which a participant
\* toggles raise-hand its own set has the new membership; no broadcast is
\* ever addressed to its sender, so neither depends on a delivery.
C3_SenderAppliesAtSend ==
  [][ /\ \A u \in Users : \A b \in BOOLEAN :
           ExecuteMicControl(u, b) =>
             /\ micConfirmation[u] \in DOMAIN micPermissionsMap'[u]
             /\ micPermissionsMap'[u][micConfirmation[u]] = b
      /\ \A u \in Users :
           ToggleRaiseHand(u) =>
             (u \in raisedHands'[u]) = (u \notin raisedHands[u])
      /\ \A m \in net' : m.to # m.from ]_vars

\* C3 witness: the sender's map already holds the sent value while the
\* broadcast is still in flight to every other peer.
C3_Witness ==
  \E m \in net :
    /\ m.kind = "mic_control"
    /\ m.target \in DOMAIN micPermissionsMap[m.from]
    /\ micPermissionsMap[m.from][m.target] = m.val
    /\ \A v \in Users \ {m.from} : [m EXCEPT !.to = v] \in net

\* C4: a peer applying an inbound mic_control{target, unmute} sets its map
\* entry for target to unmute; when target is the peer itself it also sets
\* its microphone and can-speak flag to unmute, and otherwise it leaves its
\* own microphone and can-speak flag as they were.
C4_MicControlApplied ==
  [][ \A m \in net :
        DeliverMicControl(m) =>
          /\ m.target \in DOMAIN micPermissionsMap'[m.to]
          /\ micPermissionsMap'[m.to][m.target] = m.val
          /\ m.target = m.to =>
               micEnabled'[m.to] = m.val /\ canSpeak'[m.to] = m.val
          /\ m.target # m.to =>
               /\ micEnabled'[m.to] = micEnabled[m.to]
               /\ canSpeak'[m.to] = canSpeak[m.to] ]_vars

\* C4 witness: one receiver holds an entry for another target whose value
\* differs from its own can-speak flag, and one receiver that cannot send
\* mic_control was granted the microphone.
C4_Witness ==
  /\ \E v \in Users : \E p \in Users \ {v} :
       /\ ~isTeacherOrAdmin[v]
       /\ p \in DOMAIN micPermissionsMap[v]
       /\ micPermissionsMap[v][p] # canSpeak[v]
  /\ \E v \in Users :
       /\ ~isTeacherOrAdmin[v]
       /\ v \in DOMAIN micPermissionsMap[v]
       /\ canSpeak[v] /\ micEnabled[v]

\* C5: a mounted teacher/admin always has can-speak true, also after another
\* moderator's mic_control{target = that teacher/admin, unmute = false} was
\* applied at the target.
C5_ModeratorAlwaysCanSpeak ==
  \A u \in Users : Mounted(u) /\ isTeacherOrAdmin[u] => canSpeak[u]

\* C6: applying to a peer the raise_hand or mic_control payload it has just
\* applied leaves the peer's state as it is (a duplicate delivery changes
\* nothing).
C6_ApplyTwiceIsApplyOnce ==
  [][ /\ \A m \in net :
           DeliverMicControl(m) =>
             LET after == [hands |-> raisedHands'[m.to],
                           map |-> micPermissionsMap'[m.to],
                           canSpeak |-> canSpeak'[m.to],
                           mic |-> micEnabled'[m.to]]
             IN OnMicControl(after, m.to, m.target, m.val) = after
      /\ \A m \in net :
           DeliverRaiseHand(m) =>
             LET after == [hands |-> raisedHands'[m.to],
                           map |-> micPermissionsMap'[m.to],
                           canSpeak |-> canSpeak'[m.to],
                           mic |-> micEnabled'[m.to]]
             IN OnRaiseHand(after, m.target, m.val) = after ]_vars

\* C6 witness: a peer holds a raise_hand it applied for another participant
\* and has applied a mic_control that targeted the peer itself.
C6_Witness ==
  \E v \in Users : \E p \in Users \ {v} :
    /\ p \in raisedHands[v]
    /\ v \in DOMAIN lastMicControl[v]
    /\ canSpeak[v] = lastMicControl[v][v]

\* C7: a mic_control, sent or received, never changes the peer's raised-hand
\* set (a raised hand stays raised when its owner is given the microphone),
\* and a raise_hand, sent or received, never changes the peer's
\* mic-permission map.
C7_HandsAndMapIndependent ==
  [][ /\ \A m \in net :
           DeliverMicControl(m) => raisedHands' = raisedHands
      /\ \A u \in Users : \A b \in BOOLEAN :
           ExecuteMicControl(u, b) => raisedHands' = raisedHands
      /\ \A m \in net :
           DeliverRaiseHand(m) => micPermissionsMap' = micPermissionsMap
      /\ \A u \in Users :
           ToggleRaiseHand(u) => micPermissionsMap' = micPermissionsMap ]_vars

\* C7 witness: at some peer a participant who is not teacher/admin is on the
\* stage with the hand still raised.
C7_Witness ==
  \E v \in Users : \E s \in Roster(v) :
    /\ ~isTeacherOrAdmin[s]
    /\ s \in raisedHands[v]
    /\ s \in Stage(v)

\* C8: a session that a teacher/admin ended with the end-call action is Ended,
\* has requested is_call_active = false and has sent the end_call broadcast
\* exactly once.
C8_EndCallSentExactlyOnce ==
  \A u \in Users :
    phase[u] = "Ended" /\ endedBy[u] = "action" /\ isTeacherOrAdmin[u] =>
      endCallSent[u] = 1 /\ falseWrites[u] >= 1

C10_EndCallDisconnectsReceiver ==
  [][ \A m \in net :
        DeliverEndCall(m) /\ phase[m.to] = "Active" =>
          /\ phase'[m.to] = "Ended"
          /\ is_call_active' = is_call_active
          /\ falseWrites' = falseWrites ]_vars

\* C10 witness: a teacher/admin and a participant who is not teacher/admin
\* were both ended by a delivered end_call.
C10_Witness ==
  \E u, v \in Users :
    /\ isTeacherOrAdmin[u] /\ ~isTeacherOrAdmin[v]
    /\ phase[u] = "Ended" /\ endedBy[u] = "end_call"
    /\ phase[v] = "Ended" /\ endedBy[v] = "end_call"

\* C11: once a teacher/admin's end-call action awaits its send, the step that
\* resumes it is possible whatever the flag holds and whatever is in flight,
\* and for every result of the send (ok, timed out, error) it disconnects and
\* ends the teacher/admin's own session.
C11_ModeratorEndAlwaysEndsLocally ==
  /\ [](\A u \in Users : \A result \in SendResults :
          Mounted(u) /\ endPending[u] > 0 => ENABLED EndCallFinish(u, result))
  /\ [][ \A u \in Users : \A result \in SendResults :
           EndCallFinish(u, result) =>
             /\ phase'[u] = "Ended"
             /\ endedBy'[u] = "action"
             /\ ~micEnabled'[u] ]_vars

\* C11 witness: a teacher/admin's session was ended by its end-call action
\* although the flag update failed (the flag is still true) and the end_call
\* reached nobody: another session is still Active with the end_call for it
\* still in flight.
C11_Witness ==
  \E u \in Users : \E v \in Users \ {u} :
    /\ isTeacherOrAdmin[u] /\ phase[u] = "Ended" /\ endedBy[u] = "action"
    /\ is_call_active
    /\ phase[v] = "Active"
    /\ \E m \in net : m.kind = "end_call" /\ m.from = u /\ m.to = v

\* C12: is_call_active turns true only in the step in which a teacher/admin
\* caller's session becomes Active (its media transport has connected); a
\* caller who is not teacher/admin never turns it true.
C12_FlagTrueOnlyOnceConnected ==
  [][ ~is_call_active /\ is_call_active' =>
        \E u \in Users :
          /\ isTeacherOrAdmin'[u]
          /\ phase[u] # "Active" /\ phase'[u] = "Active" ]_vars

\* C13: an init whose user is missing or whose token request fails shows the
\* error screen; the call room is never mounted from there (no channel is
\* joined, nothing is addressed to the user), the step writes neither the
\* flag nor anything else shared, the only way on is the Close button, which
\* leads to the non-call view, and there a new start is possible.
C13_TokenFailureReturnsToIdle ==
  /\ [](\A u \in Users :
          /\ phase[u] \in {"Idle", "Connecting", "Error"} =>
               ~Mounted(u) /\ \A m \in net : m.to # u
          /\ phase[u] = "Error" => ENABLED CloseError(u)
          /\ phase[u] = "Idle" => ENABLED StartCall(u))
  /\ [][ /\ \A u \in Users : \A authenticated, lookupOk, tokenOk \in BOOLEAN :
              GroupCallInit(u, authenticated, lookupOk, tokenOk)
                /\ ~(authenticated /\ tokenOk) =>
                  /\ phase'[u] = "Error"
                  /\ is_call_active' = is_call_active
                  /\ net' = net
                  /\ sessions' = sessions
         /\ \A u \in Users :
              phase[u] = "Error" =>
                /\ phase'[u] \in {"Error", "Idle"}
                /\ phase'[u] = "Idle" => is_call_active' = is_call_active ]_vars

\* C13 witness: a teacher's init has failed while another participant is in
\* the call; the flag is not set.
C13_Witness ==
  \E u \in Users : \E v \in Users \ {u} :
    /\ phase[u] = "Error" /\ "teacher" \in accountRoles[u]
    /\ ~is_call_active
    /\ phase[v] = "Active"

\* C14: however often initAudioContext is called, also while the first call
\* awaits the microphone prompt, one context is constructed, the microphone
\* is requested at most once and every edge of the graph is connected at
\* most once (exactly once when the hook is ready); a call that finds a
\* context changes nothing.
C14_InitializeIdempotent ==
  /\ [](/\ graphsBuilt <= 1
        /\ micRequests <= 1
        /\ \A e \in Edges : wires[e] <= 1
        /\ isReady => \A e \in Edges : wires[e] = 1)
  /\ [][ InitAudioContext /\ audioContext =>
           UNCHANGED <<audioContext, isReady, error, micPrompt, wires,
                       audioBuffer, playbackVars, loads, gains, micRequests,
                       graphsBuilt>> ]_vars

\* C14 witness: the hook is ready after initAudioContext was called again
\* while the prompt was open and once more when the graph was ready.
C14_Witness ==
  /\ isReady
  /\ {"pending", "ready"} \subseteq skipped
  /\ micRequests = 1 /\ graphsBuilt = 1

\* C15: when the microphone request is rejected the hook is not ready and
\* reports an error, and a later initAudioContext call, made while the hook
\* is not ready and no request is open, requests the microphone again.
C15_DeniedInitCanBeRetried ==
  [][ /\ GetUserMediaRejected => ~isReady' /\ error' = "init"
      /\ InitAudioContext /\ ~isReady /\ micPrompt = 0 =>
           micRequests' = micRequests + 1 /\ micPrompt' = 1 ]_vars

\* C16: playAudio called without a context or without a loaded buffer changes
\* nothing: isPlaying stays false, the position stays 0, no source is
\* created and no progress loop is started.
C16_PlayWithoutBufferIsNoOp ==
  /\ [](~audioContext \/ audioBuffer = 0 =>
          ~isPlaying /\ pausedAt = 0 /\ frames = {} /\ plays = 0)
  /\ [][ CallPlayAudio /\ (~audioContext \/ audioBuffer = 0) =>
           /\ UNCHANGED <<playbackVars, plays, wires, audioBuffer, error>>
           /\ ~isPlaying' ]_vars

\* C16 witness: playAudio was called before any context existed and again
\* when the context existed but no buffer was loaded.
C16_Witness ==
  /\ {"playNoContext", "playNoBuffer"} \subseteq skipped
  /\ audioContext /\ audioBuffer = 0 /\ ~isPlaying

C17_StopAlwaysRewinds ==
  /\ [](pausedAt = 0)
  /\ []((\A k \in SourceIds : sources[k].state \in {"idle", "done"}) =>
          ~isPlaying /\ currentTime = 0 /\ frames = {})
  /\ [][ CallStopAudio =>
           ~isPlaying' /\ currentTime' = 0 /\ pausedAt' = 0 /\ frames' = {} ]_vars

\* C18: a loadAudioFile that completes with a decoded buffer stores that
\* buffer and leaves the position at 0, and when isPlaying is true at that
\* moment the playback is untouched: isPlaying stays true, the current
\* source keeps playing and its progress loop stays scheduled.
C18_LoadLeavesPlaybackAlone ==
  [][ \A l \in loads :
        DecodeDone(l) /\ l.dur > 0 =>
          /\ audioBuffer' = l.dur
          /\ pausedAt' = 0
          /\ isPlaying =>
               /\ isPlaying'
               /\ bgmSource' = bgmSource
               /\ sources' = sources
               /\ frames' = frames ]_vars

\* C20: the value given to the mic gain node and to the bgm gain node lies
\* in [0, 1.5] whatever is passed to setVoiceVolume and setBgmVolume.
C20_GainsClamped ==
  /\ gains.mic >= 0 /\ gains.mic <= MaxGain
  /\ gains.bgm >= 0 /\ gains.bgm <= MaxGain

\* C21: once the component using the hook has unmounted, the microphone
\* stream obtained by initAudioContext is released and no progress loop has
\* an animation frame scheduled, whether the unmount came while the
\* microphone prompt was open, when the graph was ready or during playback.
C21_TeardownReleases ==
  ~hookMounted => ~MicStreamLive /\ frames = {}

C27_RetryTerminates ==
  /\ [](retry.calls <= retry.retries)
  /\ [](retry.stage = "returned" =>
          /\ retry.calls >= 1 /\ retry.sleeps = retry.calls - 1
          /\ retry.result = retry.last /\ retry.result \in FnOutcomes)
  /\ [](retry.stage = "thrown" =>
          /\ retry.calls = retry.retries /\ retry.sleeps = retry.retries - 1
          /\ retry.result = retry.last /\ retry.result \in FnOutcomes)
  /\ [](retry.stage = "sleeping" => retry.calls < retry.retries)
  /\ [][retry.stage \in {"returned", "thrown"} => retry' = retry]_vars
  /\ [][retry.stage = "awaiting" /\ retry'.stage = "returned" =>
          retry'.calls = retry.calls /\ retry'.sleeps = retry.sleeps]_vars
  /\ (retry.stage = "awaiting" ~> retry.stage \in {"returned", "thrown"})

\* C27 witness: a call with retries = 3 failed three times, waited twice and
\* threw the third error, which differs from the second.
C27_Witness ==
  /\ retry.stage = "thrown" /\ retry.retries = 3
  /\ retry.calls = 3 /\ retry.sleeps = 2 /\ retry.result = 2
  /\ retry.waited = 3 * retry.delay

\* C28: whenever no broadcast is in flight, all connected peers hold the same
\* permission value for every target (a missing entry counting as false),
\* whatever the order in which the mic_control broadcasts were delivered.
C28_PermissionMapsConverge ==
  net = {} =>
    \A v, w \in Users : (Mounted(v) /\ Mounted(w)) =>
      \A target \in Users :
        HasPermission(micPermissionsMap[v], target)
          = HasPermission(micPermissionsMap[w], target)

\* C29: in every state with no load awaiting and no ended event outstanding,
\* isPlaying is true exactly when a started, not yet stopped source exists
\* and a progress loop has a frame scheduled.
C29_IsPlayingAgreesWithGraph ==
  (loads = {} /\ \A k \in SourceIds : sources[k].state # "ended") =>
    (isPlaying <=> /\ \E k \in SourceIds : sources[k].state = "playing"
                   /\ frames # {})

\* C30: a participant who is not teacher/admin has the microphone enabled
\* only if the last mic_control applied at that participant with the
\* participant as target had unmute = true; without such a grant, or after a
\* revoke, the microphone is disabled, the mic button is not rendered, the
\* own tile is in the audience and its badge does not toggle, so no step of
\* the participant enables the microphone; the microphone goes on only by an
\* applied grant or, while granted, by the participant's own toggle.
C30_NoTransmitWithoutGrant ==
  /\ [](\A u \in Users : (Mounted(u) /\ ~isTeacherOrAdmin[u]) =>
          LET granted == u \in DOMAIN lastMicControl[u] /\ lastMicControl[u][u]
          IN /\ micEnabled[u] => granted
             /\ ~granted => /\ ~micEnabled[u]
                            /\ ~canSpeak[u]
                            /\ u \notin Stage(u)
                            /\ ~ENABLED ToggleMic(u)
                            /\ ~ENABLED ToggleMicOwnBadge(u))
  /\ [][\A u \in Users :
          (~isTeacherOrAdmin[u] /\ ~micEnabled[u] /\ micEnabled'[u]) =>
            \/ \E m \in net : DeliverMicControl(m) /\ m.to = u /\ m.target = u
                              /\ m.val
            \/ /\ u \in DOMAIN lastMicControl[u] /\ lastMicControl[u][u]
               /\ (ToggleMic(u) \/ ToggleMicOwnBadge(u))]_vars

\* C30 witness: the last mic_control applied at a participant who is not
\* teacher/admin, with that participant as target, was a revoke: the
\* microphone is off and the mic button is gone, while a peer still holds
\* the grant that was issued for the participant.
C30_Witness ==
  \E u, v \in Users :
    /\ Mounted(u) /\ ~isTeacherOrAdmin[u]
    /\ u \in DOMAIN lastMicControl[u] /\ ~lastMicControl[u][u]
    /\ ~micEnabled[u] /\ ~canSpeak[u]
    /\ v # u /\ HasPermission(micPermissionsMap[v], u)

\* the records published on the presence channel that carry a nickname
NamedRecords(state) ==
  {r \in UNION {{state[k][i] : i \in 1..Len(state[k])} : k \in Users} :
     r.nickname # ""}

C24_TeardownUnsubscribes ==
  /\ [](\A u \in Users : ~Mounted(u) =>
          /\ presence[u] = "none"
          /\ presenceState[u] = <<>>
          /\ \A m \in net : m.to # u)
  /\ [][\A u \in Users : (~Mounted(u) /\ ~Mounted(u)') =>
          /\ raisedHands'[u] = raisedHands[u]
          /\ micPermissionsMap'[u] = micPermissionsMap[u]
          /\ canSpeak'[u] = canSpeak[u]
          /\ micEnabled'[u] = micEnabled[u]]_vars
  /\ [](\A u \in Users : (~ChatMounted(u) \/ selectedChat[u] = "none") =>
          ~convSub[u] /\ ~watchSub[u] /\ convQueue[u] = <<>>)

\* C24 witness: a member whose record a watcher had listed has left the
\* call, and that watcher has gone back to the lobby since.
C24_Witness ==
  \E u \in Users : \E w \in Users \ {u} :
    /\ phase[u] = "Ended"
    /\ ChatMounted(w) /\ selectedChat[w] = "none"
    /\ callParticipants[w] = <<[id |-> u, nickname |-> "nick"]>>

C26_IsCallActiveMirrors ==
  \A u \in Users :
    (ChatMounted(u) /\ selectedChat[u] # "none" /\ convSub[u]
       /\ convQueue[u] = <<>>) =>
      isCallActive[u] = is_call_active

====
